---- MODULE Spec2Model ----
(***************************************************************************)
(* Model of src/fibonacci_heap.py: class FibonacciHeap and its inner class *)
(* Node.  Node objects are numbered 1, 2, ... in creation order and kept   *)
(* in the sequence `nodes` for ever (Python keeps an object alive while a  *)
(* reference to it exists, and stale left/right/child/parent references    *)
(* to extracted nodes do exist).  A reference is a node number, None is 0. *)
(* Every method is translated statement by statement; an exception stops   *)
(* the method where it is raised and leaves the assignments made so far.   *)
(***************************************************************************)
EXTENDS Integers, Sequences, FiniteSets

VARIABLES nodes,      \* the Node objects created so far, by handle
          min,        \* FibonacciHeap.min
          num_nodes,  \* FibonacciHeap.num_nodes
          live,       \* history: handles inserted and not yet unlinked by extract_minimum
          op,         \* history: the last public call
          res,        \* history: how the last public call ended
          out,        \* history: what each extract_minimum of a drain returned
          phase,      \* history: "any", or "fill"/"drain" in a fill-then-drain run
          updates     \* history: the number of decrease_key and delete calls so far

vars == <<nodes, min, num_nodes, live, op, res, out, phase, updates>>

\* Bounds of the model.
MaxNodes == 5         \* insert is called at most MaxNodes times in a run
MaxKey == 2           \* callers' keys are 1..MaxKey
MaxUpdates == 1       \* decrease_key and delete are called at most MaxUpdates times in a run

\* Python's None, as a reference and as a degree-table slot.
None == 0
\* float('-inf') of delete: below every key a caller supplies (keys are >= 1).
NegInf == 0

Keys == 1..MaxKey

(***************************************************************************)
(* Node                                                                    *)
(***************************************************************************)
\* Node.__init__: the fields of a fresh node whose handle is self.
NewNode(key, self) ==
  [key |-> key, parent |-> None, child |-> None, left |-> self, right |-> self,
   degree |-> 0, mark |-> FALSE]

RECURSIVE SibWalk(_, _, _, _, _)
\* The while loop of Node.siblings: current follows left links until it is self.
\* The links are a function on finitely many nodes, so a walk that has not met
\* self after Len(nd) steps never meets it: the loop does not terminate.
SibWalk(nd, self, current, sibs, fuel) ==
  IF current = self THEN [ok |-> TRUE, sibs |-> sibs]
  ELSE IF fuel = 0 THEN [ok |-> FALSE, sibs |-> sibs]
  ELSE SibWalk(nd, self, nd[current].left, Append(sibs, nd[current].left), fuel - 1)

\* Node.siblings: the ring of self as a list; ok = FALSE when the walk never ends.
siblings(nd, self) ==
  IF nd[self].left = self THEN [ok |-> TRUE, sibs |-> <<self>>]
  ELSE SibWalk(nd, self, nd[self].left, <<nd[self].left>>, Len(nd))

\* Node.add with the assignment of line 55 (self.left.right = node) dropped.
addNoBackLink(nd, self, node) ==
  LET n1 == [nd EXCEPT ![node].left = nd[self].left]
      n2 == [n1 EXCEPT ![node].right = self]
  IN  [n2 EXCEPT ![self].left = node]

\* Node.add: self.add(node), four assignments in order.
add(nd, self, node) ==
  LET n1 == [nd EXCEPT ![node].left = nd[self].left]
      n2 == [n1 EXCEPT ![node].right = self]
      n3 == [n2 EXCEPT ![n2[self].left].right = node]
  IN  [n3 EXCEPT ![self].left = node]

\* Node.remove: self.remove(), two assignments in order; self keeps its own links.
remove(nd, self) ==
  LET n1 == [nd EXCEPT ![nd[self].left].right = nd[self].right]
  IN  [n1 EXCEPT ![n1[self].right].left = n1[self].left]

(***************************************************************************)
(* The heap as a value threaded through a method: nodes, min, num_nodes    *)
(* and err, "ok" or the exception raised ("diverges": a loop never ends).  *)
(***************************************************************************)
Heap(nd, m, n) == [nodes |-> nd, min |-> m, num_nodes |-> n, err |-> "ok"]

Raise(h, e) == [h EXCEPT !.err = e]

\* math.log and int of line 128: int(log(n) * 2) for n >= 1.  ExpHalf[m] is the
\* least integer n with 2*ln(n) >= m, i.e. ceil(e^(m/2)): 1.65, 2.72, 4.48, 7.39,
\* 12.18, 20.09, 33.12.  The table covers n < 34.
ExpHalf == <<2, 3, 5, 8, 13, 21, 34>>

TableLen(n) == Cardinality({m \in 1..Len(ExpHalf) : ExpHalf[m] <= n})

\* Python list indexing deg_list[i] with len slots: i in -len..len-1 is in range,
\* a negative i counts from the end; the slot is returned 1-based.
InRange(i, len) == -len <= i /\ i < len

Slot(i, len) == IF i >= 0 THEN i + 1 ELSE len + i + 1

\* FibonacciHeap.__link(node1, node2): node1 becomes a child of node2.
link(nd, node1, node2) ==
  LET n1 == remove(nd, node1)
      n2 == [n1 EXCEPT ![node1].parent = node2]
      n3 == IF n2[node2].child = None
            THEN [n2 EXCEPT ![node1].right = node1, ![node1].left = node1,
                            ![node2].child = node1]
            ELSE add(n2, n2[node2].child, node1)
      n4 == [n3 EXCEPT ![node2].degree = @ + 1]
  IN  [n4 EXCEPT ![node1].mark = FALSE]

RECURSIVE LinkLoop(_, _, _)
\* The while loop of __consolidate (lines 134-141) for one root: c is the heap
\* with the degree table deg_list; ends with deg_list[node_deg] = xnode.
LinkLoop(c, xnode, node_deg) ==
  LET len == Len(c.deg_list) IN
  IF ~InRange(node_deg, len) THEN Raise(c, "IndexError")
  ELSE LET j == Slot(node_deg, len) IN
       IF c.deg_list[j] # None
       THEN LET y0 == c.deg_list[j]
                swap == c.nodes[xnode].key > c.nodes[y0].key
                x == IF swap THEN y0 ELSE xnode
                y == IF swap THEN xnode ELSE y0
            IN  LinkLoop([c EXCEPT !.nodes = link(c.nodes, y, x), !.deg_list[j] = None],
                         x, node_deg + 1)
       ELSE [c EXCEPT !.deg_list[j] = xnode]

RECURSIVE ConsolidateRoots(_, _, _)
\* The for loop over the snapshot of the root list (lines 131-141).
ConsolidateRoots(c, roots, i) ==
  IF c.err # "ok" \/ i > Len(roots) THEN c
  ELSE ConsolidateRoots(LinkLoop(c, roots[i], c.nodes[roots[i]].degree), roots, i + 1)

RECURSIVE Rebuild(_, _)
\* The for loop over the degree table (lines 143-151).  self.min is not reset
\* before it: `not self.min` is false for every Node object.
Rebuild(c, j) ==
  IF j > Len(c.deg_list) THEN c
  ELSE LET deg_node == c.deg_list[j] IN
       IF deg_node = None THEN Rebuild(c, j + 1)
       ELSE IF c.min = None
       THEN Rebuild([c EXCEPT !.min = deg_node,
                              !.nodes = [c.nodes EXCEPT ![deg_node].right = deg_node,
                                                        ![deg_node].left = deg_node]],
                    j + 1)
       ELSE LET n1 == add(c.nodes, c.min, deg_node)
                m1 == IF n1[deg_node].key < n1[c.min].key THEN deg_node ELSE c.min
            IN  Rebuild([c EXCEPT !.nodes = n1, !.min = m1], j + 1)

\* Lines 128-141 of __consolidate: the heap with the degree table deg_list after
\* the for loop over roots, the snapshot self.min.siblings() of the root list.
LinkRoots(h, roots) ==
  ConsolidateRoots([nodes |-> h.nodes, min |-> h.min, num_nodes |-> h.num_nodes,
                    err |-> "ok",
                    deg_list |-> [i \in 1..TableLen(h.num_nodes) |-> None]],
                   roots, 1)

\* FibonacciHeap.__consolidate.  math.log raises ValueError for num_nodes <= 0.
consolidate(h) ==
  IF h.num_nodes <= 0 THEN Raise(h, "ValueError")
  ELSE LET s == siblings(h.nodes, h.min) IN
       IF ~s.ok THEN Raise(h, "diverges")
       ELSE LET c1 == LinkRoots(h, s.sibs)
                c2 == IF c1.err = "ok" THEN Rebuild(c1, 1) ELSE c1
            IN  [nodes |-> c2.nodes, min |-> c2.min, num_nodes |-> c2.num_nodes,
                 err |-> c2.err]

RECURSIVE Promote(_, _, _)
\* The for loop of extract_minimum (lines 107-109) over the children's snapshot.
Promote(h, sibs, i) ==
  IF i > Len(sibs) THEN h
  ELSE LET rnode == sibs[i]
           n1 == [h.nodes EXCEPT ![rnode].parent = None]
       IN  Promote([h EXCEPT !.nodes = add(n1, h.min, rnode)], sibs, i + 1)

\* Lines 105 and 122 with the decrement of line 119 moved out of the if.
ExtractEmptyCounted(h) ==
  [h |-> [h EXCEPT !.num_nodes = @ - 1], ret |-> <<>>, unlinked |-> None]

\* FibonacciHeap.extract_minimum, lines 105 and 122: min is None, return None.
\* What a call gives is [h, ret, unlinked]: the heap, the value returned (<<>> for
\* None, <<k>> for key k) and the node line 111 took out of the root list (None
\* if the call did not get there).
ExtractEmpty(h) == [h |-> h, ret |-> <<>>, unlinked |-> None]

\* Lines 106-107 of extract_minimum: min_node.child.siblings(), the list the for
\* loop runs over; no children when min_node.child is None.
ChildSnapshot(h) ==
  IF h.nodes[h.min].child # None THEN siblings(h.nodes, h.nodes[h.min].child)
  ELSE [ok |-> TRUE, sibs |-> <<>>]

\* Lines 107-111 of extract_minimum: the children sibs of min are promoted and
\* min_node.remove() takes min out of the root list.
Unlink(h, sibs) ==
  LET h1 == Promote(h, sibs, 1)
  IN  [h1 EXCEPT !.nodes = remove(h1.nodes, h.min)]

\* Line 116 of extract_minimum: self.min = min_node.right, on the heap h2 that
\* line 111 left; the heap __consolidate is called on.
Advance(h2, min_node) == [h2 EXCEPT !.min = h2.nodes[min_node].right]

\* FibonacciHeap.extract_minimum, lines 106-120: min is a node.
ExtractNode(h) ==
  LET min_node == h.min
      s == ChildSnapshot(h)
  IN
  IF ~s.ok THEN [h |-> Raise(h, "diverges"), ret |-> <<>>, unlinked |-> None]
  ELSE
    LET h2 == Unlink(h, s.sibs)
        h3 == IF min_node = h2.nodes[min_node].right
              THEN [h2 EXCEPT !.min = None]
              ELSE consolidate(Advance(h2, min_node))
    IN
    IF h3.err # "ok" THEN [h |-> h3, ret |-> <<>>, unlinked |-> min_node]
    ELSE [h |-> [h3 EXCEPT !.num_nodes = @ - 1],
          ret |-> <<h3.nodes[min_node].key>>, unlinked |-> min_node]

\* The degree table of __consolidate on heap hc when its for loop over the roots
\* has ended (line 142).
TableOf(hc) == LinkRoots(hc, siblings(hc.nodes, hc.min).sibs).deg_list

\* The degree table at line 142 in the __consolidate call that extract_minimum
\* makes on heap h, whose min has a right neighbour after line 111.
DegTable(h) == TableOf(Advance(Unlink(h, ChildSnapshot(h).sibs), h.min))

\* FibonacciHeap.extract_minimum.
extract_minimum(h) == IF h.min = None THEN ExtractEmpty(h) ELSE ExtractNode(h)

\* FibonacciHeap.__cut(node, parent).  self.min.add raises AttributeError when
\* min is None, after the node has left its ring and the degree was decremented.
cut(h, node, parent) ==
  LET n1 == remove(h.nodes, node)
      n2 == IF n1[node].right = node THEN [n1 EXCEPT ![parent].child = None] ELSE n1
      n3 == [n2 EXCEPT ![parent].degree = @ - 1]
  IN
  IF h.min = None THEN Raise([h EXCEPT !.nodes = n3], "AttributeError")
  ELSE LET n4 == add(n3, h.min, node)
       IN  [h EXCEPT !.nodes = [n4 EXCEPT ![node].parent = None, ![node].mark = FALSE]]

RECURSIVE cascading_cut(_, _)
\* FibonacciHeap.__cascading_cut(node).
cascading_cut(h, node) ==
  LET parent == h.nodes[node].parent IN
  IF h.err # "ok" \/ parent = None THEN h
  ELSE IF ~h.nodes[node].mark THEN [h EXCEPT !.nodes[node].mark = TRUE]
  ELSE cascading_cut(cut(h, node, parent), parent)

\* Line 173 with the test dropped: every new key is accepted.
LargerKeyNever(h, node, new_key) == FALSE

\* The test of line 173: the new key is larger than the node's key.
LargerKey(h, node, new_key) == new_key > h.nodes[node].key

\* FibonacciHeap.decrease_key(node, new_key).
decrease_key(h, node, new_key) ==
  IF LargerKey(h, node, new_key) THEN h
  ELSE
    LET h1 == [h EXCEPT !.nodes[node].key = new_key]
        parent == h1.nodes[node].parent
        h2 == IF parent # None /\ h1.nodes[node].key < h1.nodes[parent].key
              THEN LET c == cut(h1, node, parent)
                   IN  IF c.err # "ok" THEN c ELSE cascading_cut(c, parent)
              ELSE h1
    IN
    IF h2.err # "ok" THEN h2
    ELSE IF h2.min = None THEN Raise(h2, "AttributeError")
    ELSE IF h2.nodes[node].key < h2.nodes[h2.min].key THEN [h2 EXCEPT !.min = node]
    ELSE h2

\* FibonacciHeap.delete, line 216: extract_minimum on the heap h1 that the
\* decrease_key of line 215 left, unless that call raised; delete returns None.
delete_extract(h1) ==
  IF h1.err # "ok" THEN [h |-> h1, ret |-> <<>>, unlinked |-> None]
  ELSE LET e == extract_minimum(h1) IN [h |-> e.h, ret |-> <<>>, unlinked |-> e.unlinked]

(***************************************************************************)
(* The public calls as actions                                             *)
(***************************************************************************)
Cur == Heap(nodes, min, num_nodes)

Result(exc, ret) == [exc |-> exc, ret |-> ret]

Call(name, h, k) == [name |-> name, h |-> h, k |-> k]

\* A call can be made: the previous one returned or raised (it did not hang).
Running == res.exc # "diverges"

\* FibonacciHeap.__init__.
Init ==
  /\ nodes = <<>>
  /\ min = None
  /\ num_nodes = 0
  /\ live = {}
  /\ op = Call("init", None, 0)
  /\ res = Result("ok", <<>>)
  /\ out = <<>>
  /\ phase = "any"
  /\ updates = 0

\* FibonacciHeap.insert(key); the handle of the node it creates is Len(nodes) + 1.
Insert(key) ==
  /\ Running
  /\ phase # "drain"
  /\ Len(nodes) < MaxNodes
  /\ LET node == Len(nodes) + 1
         n0 == Append(nodes, NewNode(key, node))
     IN  /\ IF min # None
            THEN /\ nodes' = add(n0, min, node)
                 /\ min' = IF key < nodes[min].key THEN node ELSE min
            ELSE /\ nodes' = n0
                 /\ min' = node
         /\ live' = live \cup {node}
         /\ op' = Call("insert", node, key)
  /\ num_nodes' = num_nodes + 1
  /\ res' = Result("ok", <<>>)
  /\ UNCHANGED <<out, phase, updates>>

\* FibonacciHeap.minimum(): self.min.key, AttributeError when min is None.
Minimum ==
  /\ Running
  /\ op' = Call("minimum", None, 0)
  /\ res' = IF min = None THEN Result("AttributeError", <<>>)
            ELSE Result("ok", <<nodes[min].key>>)
  /\ UNCHANGED <<nodes, min, num_nodes, live, out, phase, updates>>

\* FibonacciHeap.extract_minimum().  In a fill-then-drain run the first call ends
\* the fill, and the drain makes as many calls as there were inserts.
ExtractMinimum ==
  /\ Running
  /\ phase = "any" \/ Len(out) < Len(nodes)
  /\ \E e \in {extract_minimum(Cur)} :
         /\ nodes' = e.h.nodes
         /\ min' = e.h.min
         /\ num_nodes' = e.h.num_nodes
         /\ live' = live \ {e.unlinked}
         /\ res' = Result(e.h.err, e.ret)
         /\ out' = IF phase = "any" THEN out ELSE Append(out, e.ret)
  /\ phase' = IF phase = "any" THEN "any" ELSE "drain"
  /\ op' = Call("extract_minimum", None, 0)
  /\ UNCHANGED updates

\* FibonacciHeap.decrease_key(node, new_key) on a live handle.
DecreaseKey(node, new_key) ==
  /\ Running
  /\ updates < MaxUpdates
  /\ node \in live
  /\ \E h \in {decrease_key(Cur, node, new_key)} :
         /\ nodes' = h.nodes
         /\ min' = h.min
         /\ num_nodes' = h.num_nodes
         /\ res' = Result(h.err, <<>>)
  /\ op' = Call("decrease_key", node, new_key)
  /\ updates' = updates + 1
  /\ UNCHANGED <<live, out, phase>>

\* FibonacciHeap.delete(node) on a live handle.
Delete(node) ==
  /\ Running
  /\ updates < MaxUpdates
  /\ node \in live
  /\ \E h1 \in {decrease_key(Cur, node, NegInf)} : \E e \in {delete_extract(h1)} :
         /\ nodes' = e.h.nodes
         /\ min' = e.h.min
         /\ num_nodes' = e.h.num_nodes
         /\ live' = live \ {e.unlinked}
         /\ res' = Result(e.h.err, e.ret)
  /\ op' = Call("delete", node, 0)
  /\ updates' = updates + 1
  /\ UNCHANGED <<out, phase>>

Next ==
  \/ \E key \in Keys : Insert(key)
  \/ Minimum
  \/ ExtractMinimum
  \/ \E node \in 1..MaxNodes, new_key \in Keys : DecreaseKey(node, new_key)
  \/ \E node \in 1..MaxNodes : Delete(node)

Spec == Init /\ [][Next]_vars

\* The priority-queue calls alone: insert, minimum, extract_minimum.
NextQueue ==
  \/ \E key \in Keys : Insert(key)
  \/ Minimum
  \/ ExtractMinimum

SpecQueue == Init /\ [][NextQueue]_vars

\* A fill-then-drain run: inserts into the empty heap, then as many
\* extract_minimum calls as there were inserts.
InitSorted ==
  /\ nodes = <<>>
  /\ min = None
  /\ num_nodes = 0
  /\ live = {}
  /\ op = Call("init", None, 0)
  /\ res = Result("ok", <<>>)
  /\ out = <<>>
  /\ phase = "fill"
  /\ updates = 0

NextSorted ==
  \/ \E key \in Keys : Insert(key)
  \/ ExtractMinimum

SpecSorted == InitSorted /\ [][NextSorted]_vars

(***************************************************************************)
(* Properties                                                              *)
(***************************************************************************)
MinOf(S) == CHOOSE x \in S : \A y \in S : x <= y

\* The keys of the nodes inserted and not yet removed.
LiveKeys == {nodes[i].key : i \in live}

\* The number of positions of sequence s that hold v.
Count(s, v) == Cardinality({i \in 1..Len(s) : s[i] = v})

\* C1: sorted extraction.  In a fill-then-drain run, once extract_minimum has been
\* called as many times as insert was, every call has returned a key, the keys
\* returned are the inserted multiset, and they came out in non-decreasing order.
C1_SortedExtraction ==
  (phase = "drain" /\ Len(out) = Len(nodes)) =>
     /\ \A i \in 1..Len(out) : out[i] # <<>>
     /\ \A k \in Keys : Count(out, <<k>>) = Cardinality({i \in 1..Len(nodes) : nodes[i].key = k})
     /\ \A i, j \in 1..Len(out) : i < j => out[i][1] <= out[j][1]

\* C2: min-correctness.  Whenever a node is inserted and not yet removed, minimum()
\* returns the smallest key among the nodes inserted and not yet removed.
C2_MinCorrect ==
  live # {} => (min # None /\ nodes[min].key = MinOf(LiveKeys))

\* C3: size consistency.  len(heap) is the number of nodes inserted and not yet
\* removed, also after an extract_minimum that raised.
C3_SizeConsistent == num_nodes = Cardinality(live)

\* C4: heap order.  After every public call, every node of the heap that has a
\* parent has a key greater than or equal to its parent's key.
C4_HeapOrder ==
  \A i \in live :
     nodes[i].parent # None => nodes[i].key >= nodes[nodes[i].parent].key

\* C5: delete removes exactly one logical entry.  delete(h) on a live handle returns,
\* takes the size down by exactly 1, removes node h and no other node, and changes
\* no other node's key.
C5_DeleteOne ==
  [][op'.name = "delete" =>
       /\ res'.exc = "ok"
       /\ num_nodes' = num_nodes - 1
       /\ live' = live \ {op'.h}
       /\ \A i \in live \ {op'.h} : nodes'[i].key = nodes[i].key]_vars

\* C6: decrease_key takes effect immediately.  decrease_key(h, k) on a live handle
\* with k <= h's key returns, leaves h with key k, changes no other key and not the
\* size, and minimum() then returns the smaller of the previous minimum and k.
C6_DecreaseKey ==
  [][(op'.name = "decrease_key" /\ op'.k <= nodes[op'.h].key) =>
       /\ res'.exc = "ok"
       /\ nodes'[op'.h].key = op'.k
       /\ \A i \in 1..Len(nodes) : i # op'.h => nodes'[i].key = nodes[i].key
       /\ num_nodes' = num_nodes
       /\ min # None /\ min' # None
       /\ nodes'[min'].key = MinOf({nodes[min].key, op'.k})]_vars

\* C7: termination.  No public call on a heap reached by public calls on live
\* handles runs for ever: the ring walk of Node.siblings always comes back.
C7_Terminates == res.exc # "diverges"

\* The last call was an extract_minimum that returned None on a heap of size 0.
EmptyExtractDone ==
  op.name = "extract_minimum" /\ res = Result("ok", <<>>) /\ num_nodes = 0

\* C8: idempotent emptiness.  extract_minimum on a heap of size 0 returns None (its
\* report of the empty heap), and leaves size 0, min None and every node as it was;
\* so a repeated call does the same; an insert that follows such a call makes the
\* new node the only root and the minimum, with size 1, as on a fresh heap.
C8_EmptyExtract ==
  [][/\ (num_nodes = 0 /\ op'.name = "extract_minimum") =>
          /\ res' = Result("ok", <<>>)
          /\ num_nodes' = 0 /\ min = None /\ min' = None
          /\ nodes' = nodes /\ live' = live
     /\ (EmptyExtractDone /\ op'.name = "insert") =>
          /\ res'.exc = "ok"
          /\ min' = op'.h /\ num_nodes' = 1
          /\ nodes'[op'.h] = NewNode(op'.k, op'.h)
          /\ \A i \in 1..Len(nodes) : nodes'[i] = nodes[i]]_vars

\* C8 witness: extract_minimum has just reported the empty heap, on a heap that
\* held nodes before and has had all of them removed.
C8_Witness ==
  EmptyExtractDone /\ Len(nodes) > 0 /\ live = {}

\* C9: minimum() on a heap with zero nodes reports EmptyHeap as a defined outcome
\* and leaves the heap unchanged; on a heap with nodes it returns min's key and
\* changes nothing.
C9_Minimum ==
  [][op'.name = "minimum" =>
       /\ nodes' = nodes /\ min' = min /\ num_nodes' = num_nodes
       /\ IF num_nodes = 0 THEN res' = Result("EmptyHeap", <<>>)
          ELSE res' = Result("ok", <<nodes[min].key>>)]_vars

\* C10: an invalid decrease is a no-op.  decrease_key(h, k) with k above h's key
\* returns and leaves every field of every node, min and num_nodes as they were.
C10_InvalidDecreaseNoOp ==
  [][(op'.name = "decrease_key" /\ op'.k > nodes[op'.h].key) =>
       /\ res' = Result("ok", <<>>)
       /\ nodes' = nodes /\ min' = min /\ num_nodes' = num_nodes]_vars

\* C10 witness: an invalid decrease has just been requested for a node that is a
\* child, whose key a valid decrease would have lowered below its parent's.
C10_Witness ==
  /\ op.name = "decrease_key"
  /\ op.k > nodes[op.h].key
  /\ nodes[op.h].parent # None

\* C11: insert(key) returns a handle: the value the call returns identifies the
\* node it created, so that the caller can pass it to decrease_key or delete.
C11_InsertReturnsHandle ==
  [][op'.name = "insert" => res' = Result("ok", <<op'.h>>)]_vars

RECURSIVE RightChildClosure(_, _)
\* The least set of nodes that includes S and has, with a node, the node its
\* right link refers to and the node its child link refers to.
RightChildClosure(nd, S) ==
  LET T == S \cup {nd[x].right : x \in S} \cup ({nd[x].child : x \in S} \ {None})
  IN  IF T = S THEN S ELSE RightChildClosure(nd, T)

\* The nodes reachable from heap.min by right links and child links.
Reachable == IF min = None THEN {} ELSE RightChildClosure(nodes, {min})

\* C12: node conservation.  After any sequence of public calls on live handles the
\* nodes reachable from heap.min by right links and child links are exactly the
\* nodes inserted and not yet removed, and heap.min is None exactly when there is
\* no such node.
C12_NodeConservation ==
  /\ Reachable = live
  /\ min = None <=> live = {}

RECURSIVE RightClosure(_, _)
\* The least set of nodes that includes S and has, with a node, the node its
\* right link refers to: for S = {x}, the members of the ring x is in.
RightClosure(nd, S) ==
  LET T == S \cup {nd[x].right : x \in S}
  IN  IF T = S THEN S ELSE RightClosure(nd, T)

\* C13: ring well-formedness.  Between public calls every node x inserted and not
\* yet removed has x.left.right = x and x.right.left = x and the same parent as its
\* right neighbour, and every node of the ring of heap.min has parent None.
C13_RingsWellFormed ==
  /\ \A x \in live :
        /\ nodes[nodes[x].left].right = x
        /\ nodes[nodes[x].right].left = x
        /\ nodes[nodes[x].right].parent = nodes[x].parent
  /\ min # None => \A x \in RightClosure(nodes, {min}) : nodes[x].parent = None

\* Node p of nd has child None and degree 0, or a child whose parent is p and
\* whose ring has exactly p.degree members.
ChildDegreeOK(nd, p) ==
  IF nd[p].child = None THEN nd[p].degree = 0
  ELSE /\ nd[p].degree # 0
       /\ nd[nd[p].child].parent = p
       /\ Cardinality(RightClosure(nd, {nd[p].child})) = nd[p].degree

\* C14: child-pointer and degree consistency.  Between public calls, for every node
\* p inserted and not yet removed, p.child is None exactly when p.degree is 0, and
\* otherwise p.child is a node whose parent is p and whose ring has p.degree nodes.
C14_ChildDegree == \A p \in live : ChildDegreeOK(nodes, p)

\* C15: the degree table is always large enough.  In every extract_minimum call
\* (made directly or by delete) every index that __consolidate uses on deg_list is
\* below its length int(2*ln(num_nodes)): no call ends with IndexError.
C15_TableLargeEnough == res.exc # "IndexError"

\* C16: roots are never marked.  Between public calls every node inserted and not
\* yet removed that has parent None has mark = False.
C16_RootsUnmarked == \A x \in live : nodes[x].parent = None => ~nodes[x].mark

\* The nodes held in the non-empty slots of degree table t.
TableNodes(t) == {t[j] : j \in 1..Len(t)} \ {None}

\* C17: consolidation postcondition.  Immediately after an extract_minimum call
\* that returns and leaves heap.min a node, no two nodes of the root list (the
\* ring of heap.min) have the same degree, and the root list consists exactly of
\* the nodes held in the non-empty slots of the call's degree table.
C17_ConsolidationPost ==
  [][(op'.name = "extract_minimum" /\ res'.exc = "ok" /\ min' # None) =>
       /\ \A x, y \in RightClosure(nodes', {min'}) :
             x # y => nodes'[x].degree # nodes'[y].degree
       /\ RightClosure(nodes', {min'}) = TableNodes(DegTable(Cur))]_vars

RECURSIVE CutChain(_, _, _)
\* The nodes that the upward walk from q has to cut in nd: q and its ancestors as
\* long as they are marked non-roots (fuel bounds the walk by the number of nodes).
CutChain(nd, q, fuel) ==
  IF fuel = 0 \/ nd[q].parent = None \/ ~nd[q].mark THEN {}
  ELSE {q} \cup CutChain(nd, nd[q].parent, fuel - 1)

RECURSIVE WalkEnd(_, _, _)
\* The node at which the upward walk from q stops in nd: the first that is a root
\* or is unmarked.
WalkEnd(nd, q, fuel) ==
  IF fuel = 0 \/ nd[q].parent = None \/ ~nd[q].mark THEN q
  ELSE WalkEnd(nd, nd[q].parent, fuel - 1)

\* The step is a decrease_key call that has to cut its node from the parent: the
\* new key is accepted and is below the parent's key.
CutsNode ==
  /\ op'.name = "decrease_key"
  /\ op'.k <= nodes[op'.h].key
  /\ nodes[op'.h].parent # None
  /\ op'.k < nodes[nodes[op'.h].parent].key

\* C18: cascading-cut protocol.  When decrease_key cuts node x from its parent p,
\* x and every marked non-root met walking upward from p end with parent None and
\* mark False; the node where the walk stops keeps its parent, and becomes marked
\* if it is a non-root and keeps its mark if it is a root; every other node keeps
\* its parent and its mark.
C18_CascadingCut ==
  [][CutsNode =>
       \A i \in 1..Len(nodes) :
          IF i \in {op'.h} \cup CutChain(nodes, nodes[op'.h].parent, Len(nodes))
          THEN nodes'[i].parent = None /\ ~nodes'[i].mark
          ELSE /\ nodes'[i].parent = nodes[i].parent
               /\ nodes'[i].mark =
                    (nodes[i].mark \/ (/\ i = WalkEnd(nodes, nodes[op'.h].parent, Len(nodes))
                                       /\ nodes[i].parent # None))]_vars

RECURSIVE Fib(_)
\* The Fibonacci numbers F(1) = F(2) = 1, F(n) = F(n-1) + F(n-2).
Fib(n) == IF n <= 2 THEN 1 ELSE Fib(n - 1) + Fib(n - 2)

RECURSIVE ChildClosure(_, _)
\* The least set of nodes that includes S and has, with a node, the members of
\* the ring of the node its child link refers to: for S = {x}, the subtree of x.
ChildClosure(nd, S) ==
  LET T == S \cup UNION {IF nd[y].child = None THEN {}
                         ELSE RightClosure(nd, {nd[y].child}) : y \in S}
  IN  IF T = S THEN S ELSE ChildClosure(nd, T)

\* C19: Fibonacci size bound.  Between public calls, for every node inserted and
\* not yet removed with degree field d, the subtree rooted at the node (the node and
\* all descendants reached through child rings) has at least F(d+2) nodes.
C19_FibonacciBound ==
  \A x \in live : Cardinality(ChildClosure(nodes, {x})) >= Fib(nodes[x].degree + 2)

\* A well-formed heap: the size is the number of nodes inserted and not yet
\* removed, these are the nodes reachable from heap.min, their rings are
\* well-formed and their child links and degrees agree.
WellFormed ==
  /\ C3_SizeConsistent
  /\ C12_NodeConservation
  /\ C13_RingsWellFormed
  /\ C14_ChildDegree

\* The right (left) neighbour of root i among the roots other than node n.
RightBut(nd, n, i) == IF nd[i].right = n THEN nd[n].right ELSE nd[i].right

LeftBut(nd, n, i) == IF nd[i].left = n THEN nd[n].left ELSE nd[i].left

\* C20: insert frame and effect.  insert(k) on a well-formed heap creates exactly
\* one node, a member of the root ring with key k, no parent, no child, degree 0
\* and mark False; num_nodes grows by 1; the nodes reachable from heap.min are the
\* old ones and the new one; every old node keeps key, parent, child, degree and
\* mark; every old root keeps its right and left neighbour among the old roots;
\* heap.min is the new node exactly when heap.min was None or k is strictly below
\* the old minimum key.
C20_InsertFrame ==
  [][(op'.name = "insert" /\ WellFormed) =>
       /\ Len(nodes') = Len(nodes) + 1 /\ op'.h = Len(nodes) + 1
       /\ nodes'[op'.h].key = op'.k
       /\ nodes'[op'.h].parent = None /\ nodes'[op'.h].child = None
       /\ nodes'[op'.h].degree = 0 /\ ~nodes'[op'.h].mark
       /\ op'.h \in RightClosure(nodes', {min'})
       /\ num_nodes' = num_nodes + 1
       /\ RightChildClosure(nodes', {min'}) = live \cup {op'.h}
       /\ \A i \in 1..Len(nodes) :
             /\ nodes'[i].key = nodes[i].key /\ nodes'[i].parent = nodes[i].parent
             /\ nodes'[i].child = nodes[i].child /\ nodes'[i].degree = nodes[i].degree
             /\ nodes'[i].mark = nodes[i].mark
       /\ \A i \in live :
             nodes[i].parent = None =>
                /\ RightBut(nodes', op'.h, i) = nodes[i].right
                /\ LeftBut(nodes', op'.h, i) = nodes[i].left
       /\ min' = IF min = None \/ op'.k < nodes[min].key THEN op'.h ELSE min]_vars

\* C20 witness: insert has just added a node to a heap that holds trees (a node
\* with a parent) and several roots, with a key equal to the minimum key: the old
\* min is kept, and the heap is well-formed.
C20_Witness ==
  /\ op.name = "insert"
  /\ WellFormed
  /\ min # op.h /\ op.k = nodes[min].key
  /\ \E x \in live : nodes[x].parent # None
  /\ Cardinality(RightClosure(nodes, {min})) >= 3

====
